---------------------------- MODULE Spec2Model ----------------------------
(***************************************************************************)
(* Token-gated LLM pipeline (llm-token-gating): one /query request driven  *)
(* through planner -> retriever -> generator -> critic -> should_continue  *)
(* -> (finalize | summarizer | planner).                                   *)
(*                                                                         *)
(* The state variables are the keys of AgentState (src/app/state.py) with  *)
(* their source names, plus observation variables (pc, branch, the call    *)
(* and evaluation counters) that record what the run did.                  *)
(*                                                                         *)
(* quality_score is a float in the source; here it is held in hundredths   *)
(* (0.85 is 85, 0.7 is 70, 1.0 is 100).                                     *)
(***************************************************************************)
EXTENDS Integers, Sequences, FiniteSets, TLC

VARIABLES
    user_query,          \* AgentState.user_query
    plan,                \* AgentState.plan
    retrieved_chunks,    \* AgentState.retrieved_chunks
    draft_answer,        \* AgentState.draft_answer
    final_answer,        \* AgentState.final_answer
    total_token_budget,  \* AgentState.total_token_budget
    remaining_tokens,    \* AgentState.remaining_tokens
    tokens_used,         \* AgentState.tokens_used: node name -> tokens
    step_count,          \* AgentState.step_count
    max_steps,           \* AgentState.max_steps
    quality_score,       \* AgentState.quality_score, in hundredths
    status,              \* AgentState.status
    pc,                  \* the node the graph runs next
    branch,              \* the last value should_continue returned
    router_evals,        \* how many times should_continue was evaluated
    calls,               \* external calls made so far, per node
    top_k,               \* the k of the last similarity_search
    last_cost,           \* the cost of the last consume_tokens call
    call_failed,         \* an external call raised
    high_seen,           \* the critic has written a score >= QUALITY_THRESHOLD
    pass_start,          \* <<remaining_tokens, step_count>> when the pass began
    pass_calls,          \* calls when the last pass began
    critic_response      \* the last completion the critic received

vars == <<user_query, plan, retrieved_chunks, draft_answer, final_answer,
          total_token_budget, remaining_tokens, tokens_used, step_count,
          max_steps, quality_score, status, pc, branch, router_evals, calls,
          top_k, last_cost, call_failed, high_seen, pass_start,
          pass_calls,
          critic_response>>

artifacts == <<user_query, plan, retrieved_chunks, draft_answer, final_answer>>
ledger    == <<total_token_budget, remaining_tokens, tokens_used>>
observed  == <<branch, router_evals, top_k, high_seen, pass_start, pass_calls,
               critic_response>>

---------------------------------------------------------------------------
(* Program constants *)

BUDGET_THRESHOLD == 500
QUALITY_THRESHOLD == 85
PLANNER_REQUIRED_BUDGET == 800
MIN_GENERATION_BUDGET == 3000
TOKENS_PER_CHUNK == 400
MAX_TOP_K == 10
GENERATOR_REQUIRED_BUDGET == 2500
CRITIC_REQUIRED_BUDGET == 800
DEFAULT_SCORE == 70
SUMMARIZER_BUDGET == 400
default_token_budget == 10000
default_max_steps == 5

FALLBACK_ANSWER == "Unable to generate an answer due to budget constraints."

Nodes == {"planner", "retriever", "generator", "critic", "summarizer"}

DegradedStatuses ==
    {"INSUFFICIENT_BUDGET_FOR_PLANNING", "INSUFFICIENT_BUDGET_FOR_GENERATION"}
TerminalStatuses == {"COMPLETED", "COMPLETED_WITH_SUMMARY"}
Statuses == {"INIT"} \cup DegradedStatuses \cup TerminalStatuses

---------------------------------------------------------------------------
(* Bounds: the request inputs and the external services' answers *)

\* The requests: token_budget and max_steps of QueryRequest; 0 stands for an
\* absent (or zero) field, which main.query replaces by the default
Requests ==
    { <<0, 0>>, <<400, 0>>, <<-1, 0>>, <<799, 1>>, <<800, 1>>,
      <<2599, 1>>, <<2600, -1>>, <<3200, 2>>, <<3499, 2>>, <<3500, 2>>,
      <<3899, 1>>, <<3900, 1>> }
Queries == {"", "q"}
\* usage.prompt_tokens + usage.completion_tokens of a completion
Costs == {100, 3000}
\* estimate_tokens of the joined chunks
ChunkCosts == {700}
\* how many chunks the index holds for a query
MaxChunks == 1
PlanTexts == {"p"}
AnswerTexts == {"", "d1", "d2"}
SummaryTexts == {"", "s"}

Max(a, b) == IF a >= b THEN a ELSE b
Min(a, b) == IF a <= b THEN a ELSE b


---------------------------------------------------------------------------
(* token_accounting.consume_tokens *)

\* (mutant) what remains is recomputed from the total budget
consume_remaining_from_total(remaining, estimated) ==
    Max(total_token_budget - Max(0, estimated), 0)

\* state["remaining_tokens"] after consume_tokens(state, node, estimated)
consume_remaining(remaining, estimated) ==
    Max(remaining - Max(0, estimated), 0)

\* (mutant) the entry is set to the cost, not raised by it
consume_used_overwrites(used, node, estimated) ==
    [n \in (DOMAIN used) \cup {node} |->
        IF n = node THEN Max(0, estimated) ELSE used[n]]

\* state["tokens_used"] after consume_tokens(state, node, estimated)
consume_used(used, node, estimated) ==
    [n \in (DOMAIN used) \cup {node} |->
        (IF n \in DOMAIN used THEN used[n] ELSE 0)
        + (IF n = node THEN Max(0, estimated) ELSE 0)]

consume_tokens(node, estimated) ==
    /\ remaining_tokens' = consume_remaining(remaining_tokens, estimated)
    /\ tokens_used' = consume_used(tokens_used, node, estimated)
    /\ last_cost' = Max(0, estimated)

RECURSIVE SumOver(_, _)
SumOver(f, S) ==
    IF S = {} THEN 0
    ELSE LET n == CHOOSE x \in S : TRUE IN f[n] + SumOver(f, S \ {n})

\* sum(tokens_used.values()), the total_tokens of the /query response
total_tokens == SumOver(tokens_used, DOMAIN tokens_used)

called(node) == calls' = [calls EXCEPT ![node] = @ + 1]

\* (mutant) the node catches the failure and the run goes on to the
\* summarizer
raise_caught_summarizes ==
    /\ pc' = "summarizer"
    /\ call_failed' = TRUE
    /\ UNCHANGED <<artifacts, ledger, step_count, max_steps, quality_score,
                   status, observed, calls, last_cost>>

\* an external call raises: the exception leaves the node before any write
\* to the state and ends the request (HTTP 500)
raise_from_call ==
    /\ pc' = "aborted"
    /\ call_failed' = TRUE
    /\ UNCHANGED <<artifacts, ledger, step_count, max_steps, quality_score,
                   status, observed, calls, last_cost>>

---------------------------------------------------------------------------
(* state.initialize_state, called from main.query *)

initialize_state(query, budget, steps) ==
    /\ user_query = query
    /\ plan = ""
    /\ retrieved_chunks = <<>>
    /\ draft_answer = ""
    /\ final_answer = ""
    /\ total_token_budget = budget
    /\ remaining_tokens = budget
    /\ tokens_used = <<>>
    /\ step_count = 0
    /\ max_steps = steps
    /\ quality_score = 0
    /\ status = "INIT"

\* request.token_budget or settings.default_token_budget
budget_or_default(b) == IF b = 0 THEN default_token_budget ELSE b
\* request.max_steps or settings.default_max_steps
steps_or_default(m) == IF m = 0 THEN default_max_steps ELSE m

Init ==
    /\ \E q \in Queries, r \in Requests :
          initialize_state(q, budget_or_default(r[1]), steps_or_default(r[2]))
    /\ pc = "planner"
    /\ branch = "none"
    /\ router_evals = 0
    /\ calls = [n \in Nodes |-> 0]
    /\ top_k = 0
    /\ last_cost = 0
    /\ call_failed = FALSE
    /\ high_seen = FALSE
    /\ pass_start = <<remaining_tokens, step_count>>
    /\ pass_calls = calls
    /\ critic_response = [kind |-> "none", val |-> 0]

---------------------------------------------------------------------------
(* nodes/planner.py *)

\* (mutant) the gate taken with <= : a budget of exactly the requirement
\* degrades
planner_insufficient_le == remaining_tokens <= PLANNER_REQUIRED_BUDGET

\* if state.get("remaining_tokens", 0) < PLANNER_REQUIRED_BUDGET
planner_insufficient == remaining_tokens < PLANNER_REQUIRED_BUDGET

\* (mutant) the degraded path counts the invocation as a step too
planner_degraded_counts ==
    /\ planner_insufficient
    /\ status' = "INSUFFICIENT_BUDGET_FOR_PLANNING"
    /\ step_count' = step_count + 1
    /\ pc' = "retriever"
    /\ UNCHANGED <<artifacts, ledger, max_steps, quality_score,
                   observed, calls, last_cost, call_failed>>

\* (mutant) the degraded planner hands over to the router at once
planner_degraded_short_circuits ==
    /\ planner_insufficient
    /\ status' = "INSUFFICIENT_BUDGET_FOR_PLANNING"
    /\ pc' = "router"
    /\ UNCHANGED <<artifacts, ledger, step_count, max_steps, quality_score,
                   observed, calls, last_cost, call_failed>>

planner_degraded ==
    /\ planner_insufficient
    /\ status' = "INSUFFICIENT_BUDGET_FOR_PLANNING"
    /\ pc' = "retriever"
    /\ UNCHANGED <<artifacts, ledger, step_count, max_steps, quality_score,
                   observed, calls, last_cost, call_failed>>

planner_call ==
    /\ ~planner_insufficient
    /\ \/ \E text \in PlanTexts, cost \in Costs :
             /\ plan' = text
             /\ consume_tokens("planner", cost)
             /\ step_count' = step_count + 1
             /\ called("planner")
             /\ pc' = "retriever"
             /\ UNCHANGED <<user_query, retrieved_chunks, draft_answer,
                            final_answer, total_token_budget, max_steps,
                            quality_score, status, observed, call_failed>>
       \/ raise_from_call

planner_node ==
    /\ pc = "planner"
    /\ (planner_degraded \/ planner_call)

---------------------------------------------------------------------------
(* nodes/retriever.py *)

available_for_context == remaining_tokens - MIN_GENERATION_BUDGET

\* (mutant) without the floor of one chunk
compute_top_k_no_floor(available) ==
    Min(available \div TOKENS_PER_CHUNK, MAX_TOP_K)

\* top_k = min(max(1, available // TOKENS_PER_CHUNK), 10)
compute_top_k(available) ==
    Min(Max(1, available \div TOKENS_PER_CHUNK), MAX_TOP_K)

\* vector_store.similarity_search(query, k): at most k chunks, none for an
\* empty query
similarity_search(query, k) ==
    IF query = "" THEN {<<>>}
    ELSE {[i \in 1..n |-> "c"] : n \in 0..Min(k, MaxChunks)}

retriever_skip ==
    /\ available_for_context <= 0
    /\ retrieved_chunks' = <<>>
    /\ pc' = "generator"
    /\ UNCHANGED <<user_query, plan, draft_answer, final_answer, ledger,
                   step_count, max_steps, quality_score, status, observed,
                   calls, last_cost, call_failed>>

retriever_call ==
    /\ available_for_context > 0
    /\ \/ \E chunks \in similarity_search(user_query,
                                          compute_top_k(available_for_context)) :
          \E cost \in (IF chunks = <<>> THEN {0} ELSE ChunkCosts) :
             /\ top_k' = compute_top_k(available_for_context)
             /\ retrieved_chunks' = chunks
             /\ consume_tokens("retriever", cost)
             /\ called("retriever")
             /\ pc' = "generator"
             /\ UNCHANGED <<user_query, plan, draft_answer, final_answer,
                            total_token_budget, step_count, max_steps,
                            quality_score, status, branch, router_evals,
                            high_seen, pass_start, pass_calls,
                            critic_response,
                            call_failed>>
       \/ raise_from_call

retriever_node ==
    /\ pc = "retriever"
    /\ (retriever_skip \/ retriever_call)

---------------------------------------------------------------------------
(* nodes/generator.py *)

\* (mutant) the gate reads the total budget, not what remains of it
generator_insufficient_total == total_token_budget < GENERATOR_REQUIRED_BUDGET

\* if state.get("remaining_tokens", 0) < GENERATOR_REQUIRED_BUDGET
generator_insufficient == remaining_tokens < GENERATOR_REQUIRED_BUDGET

\* (mutant) the generator degrades without setting the status
generator_degraded_silent ==
    /\ generator_insufficient
    /\ pc' = "critic"
    /\ UNCHANGED <<artifacts, ledger, step_count, max_steps, quality_score,
                   status, observed, calls, last_cost, call_failed>>

generator_degraded ==
    /\ generator_insufficient
    /\ status' = "INSUFFICIENT_BUDGET_FOR_GENERATION"
    /\ pc' = "critic"
    /\ UNCHANGED <<artifacts, ledger, step_count, max_steps, quality_score,
                   observed, calls, last_cost, call_failed>>

generator_call ==
    /\ ~generator_insufficient
    /\ \/ \E text \in AnswerTexts, cost \in Costs :
             /\ draft_answer' = text
             /\ consume_tokens("generator", cost)
             /\ called("generator")
             /\ pc' = "critic"
             /\ UNCHANGED <<user_query, plan, retrieved_chunks, final_answer,
                            total_token_budget, step_count, max_steps,
                            quality_score, status, observed, call_failed>>
       \/ raise_from_call

generator_node ==
    /\ pc = "generator"
    /\ (generator_degraded \/ generator_call)

---------------------------------------------------------------------------
(* nodes/critic.py *)

\* What the critic's completion text can be, as json.loads and float() see it:
\*   score      a JSON object whose "score" is the number val (hundredths)
\*   nan        a JSON object whose "score" is NaN
\*   no_score   a JSON object without "score"
\*   bad_score  a JSON object whose "score" float() rejects (ValueError,
\*              TypeError)
\*   bad_json   not JSON, or empty (JSONDecodeError)
\*   not_object JSON that is not an object: parsed.get raises AttributeError
RawScores == {-10, 85, 120}
CriticResponses ==
    [kind : {"score"}, val : RawScores]
    \cup [kind : {"nan", "no_score", "bad_score", "bad_json", "not_object"},
          val : {0}]

\* score = max(0.0, min(1.0, score))
clamp_score(score) == Max(0, Min(100, score))

\* the try block of critic_node lets the exception out: AttributeError is
\* not among (JSONDecodeError, ValueError, TypeError)
parse_raises(resp) == resp.kind = "not_object"

\* the score the try block of critic_node leaves
parse_score(resp) ==
    CASE resp.kind = "score"     -> clamp_score(resp.val)
      [] resp.kind = "nan"       -> 100   \* min(1.0, nan) is 1.0
      [] resp.kind = "no_score"  -> clamp_score(DEFAULT_SCORE)
      [] resp.kind = "bad_score" -> DEFAULT_SCORE
      [] resp.kind = "bad_json"  -> DEFAULT_SCORE

\* (mutant) the gate compares with the summarizer's requirement
critic_insufficient_400 == remaining_tokens < SUMMARIZER_BUDGET

\* if state.get("remaining_tokens", 0) < CRITIC_REQUIRED_BUDGET
critic_insufficient == remaining_tokens < CRITIC_REQUIRED_BUDGET

critic_degraded ==
    /\ critic_insufficient
    /\ quality_score' = DEFAULT_SCORE
    /\ pc' = "router"
    /\ UNCHANGED <<artifacts, ledger, step_count, max_steps, status,
                   observed, calls, last_cost, call_failed>>

critic_call ==
    /\ ~critic_insufficient
    /\ \/ \E resp \in CriticResponses, cost \in Costs :
             /\ called("critic")
             /\ critic_response' = resp
             /\ IF parse_raises(resp)
                THEN \* the exception leaves critic_node and the request
                     /\ pc' = "aborted"
                     /\ UNCHANGED <<artifacts, ledger, step_count, max_steps,
                                    quality_score, status, branch,
                                    router_evals, top_k, high_seen,
                                    pass_start, pass_calls, last_cost,
                                    call_failed>>
                ELSE /\ quality_score' = parse_score(resp)
                     /\ high_seen' =
                           (high_seen \/ parse_score(resp) >= QUALITY_THRESHOLD)
                     /\ consume_tokens("critic", cost)
                     /\ pc' = "router"
                     /\ UNCHANGED <<artifacts, total_token_budget, step_count,
                                    max_steps, status, branch, router_evals,
                                    top_k, pass_start, pass_calls,
                                    call_failed>>
       \/ raise_from_call

critic_node ==
    /\ pc = "critic"
    /\ (critic_degraded \/ critic_call)

---------------------------------------------------------------------------
(* graph.py: should_continue, finalize_node and the edges of build_graph *)

\* status.startswith("INSUFFICIENT_BUDGET"), over the statuses the code sets
is_insufficient(s) == s \in DegradedStatuses

\* (mutant) the quality rule tried before the budget rule
should_continue_quality_first ==
    IF is_insufficient(status) THEN "summarize"
    ELSE IF quality_score >= QUALITY_THRESHOLD THEN "end"
    ELSE IF remaining_tokens <= BUDGET_THRESHOLD THEN "summarize"
    ELSE IF step_count >= max_steps THEN "summarize"
    ELSE "loop"

\* (mutant) the step limit taken with > : one pass more
should_continue_one_more ==
    IF is_insufficient(status) THEN "summarize"
    ELSE IF remaining_tokens <= BUDGET_THRESHOLD THEN "summarize"
    ELSE IF quality_score >= QUALITY_THRESHOLD THEN "end"
    ELSE IF step_count > max_steps THEN "summarize"
    ELSE "loop"

\* (mutant) the router never looks at the status
should_continue_ignores_status ==
    IF remaining_tokens <= BUDGET_THRESHOLD THEN "summarize"
    ELSE IF quality_score >= QUALITY_THRESHOLD THEN "end"
    ELSE IF step_count >= max_steps THEN "summarize"
    ELSE "loop"

\* (mutant) the router without the step limit
should_continue_no_step_limit ==
    IF is_insufficient(status) THEN "summarize"
    ELSE IF remaining_tokens <= BUDGET_THRESHOLD THEN "summarize"
    ELSE IF quality_score >= QUALITY_THRESHOLD THEN "end"
    ELSE "loop"

should_continue ==
    IF is_insufficient(status) THEN "summarize"
    ELSE IF remaining_tokens <= BUDGET_THRESHOLD THEN "summarize"
    ELSE IF quality_score >= QUALITY_THRESHOLD THEN "end"
    ELSE IF step_count >= max_steps THEN "summarize"
    ELSE "loop"

\* (mutant) the "end" edge wired to the summarizer
edge_target_end_summarizes(b) ==
    CASE b = "end"       -> "summarizer"
      [] b = "loop"      -> "planner"
      [] b = "summarize" -> "summarizer"

\* add_conditional_edges("critic", should_continue, {...})
edge_target(b) ==
    CASE b = "end"       -> "finalize"
      [] b = "loop"      -> "planner"
      [] b = "summarize" -> "summarizer"

\* (mutant) the router counts the pass itself when it loops
route_counts_step ==
    /\ pc = "router"
    /\ branch' = should_continue
    /\ router_evals' = router_evals + 1
    /\ pc' = edge_target(should_continue)
    /\ pass_start' = <<remaining_tokens, step_count>>
    /\ pass_calls' = (IF should_continue = "loop" THEN calls ELSE pass_calls)
    /\ step_count' = (IF should_continue = "loop" THEN step_count + 1
                      ELSE step_count)
    /\ UNCHANGED <<artifacts, ledger, max_steps, quality_score,
                   status, calls, top_k, last_cost, call_failed, high_seen,
                   critic_response>>

route ==
    /\ pc = "router"
    /\ branch' = should_continue
    /\ router_evals' = router_evals + 1
    /\ pc' = edge_target(should_continue)
    /\ pass_start' = <<remaining_tokens, step_count>>
    /\ pass_calls' = (IF should_continue = "loop" THEN calls ELSE pass_calls)
    /\ UNCHANGED <<artifacts, ledger, step_count, max_steps, quality_score,
                   status, calls, top_k, last_cost, call_failed, high_seen,
                   critic_response>>

finalize_node ==
    /\ pc = "finalize"
    /\ final_answer' = draft_answer
    /\ status' = "COMPLETED"
    /\ pc' = "done"
    /\ UNCHANGED <<user_query, plan, retrieved_chunks, draft_answer, ledger,
                   step_count, max_steps, quality_score, observed, calls,
                   last_cost, call_failed>>

---------------------------------------------------------------------------
(* nodes/summarizer.py *)

\* (mutant) "a draft and some budget": any budget left is taken as enough
summarizer_some_budget == draft_answer # "" /\ remaining_tokens > 0

\* (mutant) the gate of the other stages: the budget alone decides
summarizer_budget_only == remaining_tokens >= SUMMARIZER_BUDGET

\* if draft and state.get("remaining_tokens", 0) >= SUMMARIZER_BUDGET
summarizer_affordable ==
    draft_answer # "" /\ remaining_tokens >= SUMMARIZER_BUDGET

summarizer_call ==
    /\ summarizer_affordable
    /\ \/ \E text \in SummaryTexts, cost \in Costs :
             \* summary = response.choices[0].message.content or draft
             /\ final_answer' = (IF text = "" THEN draft_answer ELSE text)
             /\ consume_tokens("summarizer", cost)
             /\ called("summarizer")
             /\ status' = "COMPLETED_WITH_SUMMARY"
             /\ pc' = "done"
             /\ UNCHANGED <<user_query, plan, retrieved_chunks, draft_answer,
                            total_token_budget, step_count, max_steps,
                            quality_score, observed, call_failed>>
       \/ raise_from_call

summarizer_draft ==
    /\ ~summarizer_affordable
    /\ draft_answer # ""
    /\ final_answer' = draft_answer
    /\ status' = "COMPLETED_WITH_SUMMARY"
    /\ pc' = "done"
    /\ UNCHANGED <<user_query, plan, retrieved_chunks, draft_answer, ledger,
                   step_count, max_steps, quality_score, observed, calls,
                   last_cost, call_failed>>

summarizer_fallback ==
    /\ ~summarizer_affordable
    /\ draft_answer = ""
    /\ final_answer' = FALLBACK_ANSWER
    /\ status' = "COMPLETED_WITH_SUMMARY"
    /\ pc' = "done"
    /\ UNCHANGED <<user_query, plan, retrieved_chunks, draft_answer, ledger,
                   step_count, max_steps, quality_score, observed, calls,
                   last_cost, call_failed>>

summarizer_node ==
    /\ pc = "summarizer"
    /\ (summarizer_call \/ summarizer_draft \/ summarizer_fallback)

---------------------------------------------------------------------------
(* main.query: graph.invoke(initial_state) *)

\* What /query answers: HTTP 500 with the exception's text when graph.invoke
\* raised, the QueryResponse built from the final state when it returned,
\* nothing while the graph runs
response ==
    CASE pc = "aborted" ->
           [status_code |-> 500, detail |-> "Execution error"]
      [] pc = "done" ->
           [status_code |-> 200,
            answer |-> (IF final_answer # "" THEN final_answer
                        ELSE draft_answer),
            status |-> status,
            tokens_used |-> tokens_used,
            total_tokens |-> total_tokens,
            steps_executed |-> step_count]
      [] OTHER -> [status_code |-> 0]

Next ==
    \/ planner_node
    \/ retriever_node
    \/ generator_node
    \/ critic_node
    \/ route
    \/ finalize_node
    \/ summarizer_node

Spec == Init /\ [][Next]_vars

\* graph.invoke runs the next node as soon as the previous one returns
FairSpec == Spec /\ WF_vars(Next)

---------------------------------------------------------------------------
(* should_continue as a function of its argument: any state handed to it *)

RouterRemaining == {0, 499, 500, 501, 3000}
RouterScores == {0, 70, 84, 85, 86, 100}
RouterMaxSteps == 3

RouterInit ==
    /\ user_query \in Queries
    /\ plan \in PlanTexts
    /\ retrieved_chunks = <<>>
    /\ draft_answer \in AnswerTexts
    /\ final_answer = ""
    /\ remaining_tokens \in RouterRemaining
    /\ total_token_budget \in {remaining_tokens, remaining_tokens + 100}
    /\ tokens_used = (IF total_token_budget = remaining_tokens THEN <<>>
                      ELSE [n \in {"planner"} |-> 100])
    /\ step_count \in 0..RouterMaxSteps
    /\ max_steps \in {-1} \cup 1..RouterMaxSteps
    /\ quality_score \in RouterScores
    /\ status \in {"INIT"} \cup DegradedStatuses
    /\ pc = "router"
    /\ branch = "none"
    /\ router_evals = 0
    /\ calls = [n \in Nodes |-> 0]
    /\ top_k = 0
    /\ last_cost = 0
    /\ call_failed = FALSE
    /\ high_seen = (quality_score >= QUALITY_THRESHOLD)
    /\ pass_start \in {<<remaining_tokens, step_count>>,
                       <<remaining_tokens + 100, step_count - 1>>}
    /\ pass_calls = calls
    /\ critic_response = [kind |-> "none", val |-> 0]

RouterNext == route

RouterSpec == RouterInit /\ [][RouterNext]_vars

---------------------------------------------------------------------------
(* retriever_node on every remaining budget around and above the reserve *)

MaxAffordable == 4500

RetrieverInit ==
    /\ user_query \in Queries
    /\ plan = "p"
    /\ retrieved_chunks = <<>>
    /\ draft_answer = ""
    /\ final_answer = ""
    /\ remaining_tokens \in
          {MIN_GENERATION_BUDGET + a : a \in (-2)..MaxAffordable}
    /\ total_token_budget = remaining_tokens + 100
    /\ tokens_used = [n \in {"planner"} |-> 100]
    /\ step_count = 1
    /\ max_steps = default_max_steps
    /\ quality_score = 0
    /\ status = "INIT"
    /\ pc = "retriever"
    /\ branch = "none"
    /\ router_evals = 0
    /\ calls = [n \in Nodes |-> IF n = "planner" THEN 1 ELSE 0]
    /\ top_k = 0
    /\ last_cost = 100
    /\ call_failed = FALSE
    /\ high_seen = FALSE
    /\ pass_start = <<total_token_budget, 0>>
    /\ pass_calls = [n \in Nodes |-> 0]
    /\ critic_response = [kind |-> "none", val |-> 0]

RetrieverNext == retriever_node

RetrieverSpec == RetrieverInit /\ [][RetrieverNext]_vars

---------------------------------------------------------------------------
(* consume_tokens applied to a fresh state, any stage and any cost *)

MaxConsumes == 3
LedgerBudgets == {50, 100, 250, 1000}
LedgerCosts == {-50, 0, 100, 300}
LedgerStages == {"planner", "generator"}

LedgerInit ==
    /\ \E b \in LedgerBudgets : initialize_state("q", b, default_max_steps)
    /\ pc = "ledger"
    /\ branch = "none"
    /\ router_evals = 0
    /\ calls = [n \in Nodes |-> 0]
    /\ top_k = 0
    /\ last_cost = 0
    /\ call_failed = FALSE
    /\ high_seen = FALSE
    /\ pass_start = <<total_token_budget, 0>>
    /\ pass_calls = calls
    /\ critic_response = [kind |-> "none", val |-> 0]

LedgerNext ==
    /\ pc = "ledger"
    /\ SumOver(calls, Nodes) < MaxConsumes
    /\ \E node \in LedgerStages, cost \in LedgerCosts :
          /\ consume_tokens(node, cost)
          /\ called(node)
    /\ UNCHANGED <<artifacts, total_token_budget, step_count, max_steps,
                   quality_score, status, pc, observed, call_failed>>

LedgerSpec == LedgerInit /\ [][LedgerNext]_vars

---------------------------------------------------------------------------
(* The properties *)

Stopped == pc \in {"done", "aborted"}

\* C1: for totalBudget > 0 and maxSteps >= 1, whatever the external services
\* return, a run in which no external call fails reaches COMPLETED or
\* COMPLETED_WITH_SUMMARY (it never stops short of a terminal status), and
\* should_continue is evaluated at most maxSteps + 1 times.
C1_ReachesTerminal ==
    (total_token_budget > 0 /\ max_steps >= 1 /\ ~call_failed) =>
        /\ router_evals <= max_steps + 1
        /\ Stopped => status \in TerminalStatuses

\* C2: remainingBudget == max(0, totalBudget - sum of tokensUsed) in every
\* reachable state, so remainingBudget is never negative.
C2_LedgerInvariant ==
    /\ remaining_tokens = Max(0, total_token_budget - total_tokens)
    /\ remaining_tokens >= 0

C4_AnswerNonEmpty ==
    status \in TerminalStatuses => final_answer # ""

\* The first matching rule of the routing table, on the five fields.
FirstMatch(st, rem, q, sc, ms) ==
    CASE st \in {"INSUFFICIENT_BUDGET_FOR_PLANNING",
                 "INSUFFICIENT_BUDGET_FOR_GENERATION"} -> "summarize"
      [] st \in {"INIT"} /\ rem <= 500 -> "summarize"
      [] st \in {"INIT"} /\ rem > 500 /\ q >= 85 -> "end"
      [] st \in {"INIT"} /\ rem > 500 /\ q < 85 /\ sc >= ms -> "summarize"
      [] OTHER -> "loop"

\* C5: should_continue returns the branch of the first matching rule of
\* (1) degraded status -> summarize, (2) remainingBudget <= 500 -> summarize,
\* (3) qualityScore >= 0.85 -> end, (4) stepCount >= maxSteps -> summarize,
\* (5) loop; whatever the other fields of the state hold.
C5_RouterTable ==
    router_evals > 0 =>
        /\ branch = FirstMatch(status, remaining_tokens, quality_score,
                               step_count, max_steps)
        /\ pc = (CASE branch = "end" -> "finalize"
                   [] branch = "loop" -> "planner"
                   [] branch = "summarize" -> "summarizer")

\* C5's case: the budget rule wins over the quality rule at exactly 500,
\* with the step limit reached as well.
C5_Witness ==
    /\ router_evals = 1
    /\ status = "INIT"
    /\ remaining_tokens = 500
    /\ quality_score = 85
    /\ step_count >= max_steps
    /\ branch = "summarize"

NoCall == calls' = calls

\* C6: with remainingBudget < 800 at planner entry (< 2500 at generator
\* entry) the stage makes no external call, sets the degradation status and
\* leaves plan, draftAnswer, remainingBudget, tokensUsed and stepCount
\* unchanged; with remainingBudget equal to the requirement it does not
\* degrade (it makes its call and leaves the status alone).
C6_Gates ==
    [][ /\ (pc = "planner" /\ remaining_tokens < 800) =>
              /\ status' = "INSUFFICIENT_BUDGET_FOR_PLANNING"
              /\ NoCall
              /\ UNCHANGED <<plan, draft_answer, remaining_tokens,
                             tokens_used, step_count>>
        /\ (pc = "generator" /\ remaining_tokens < 2500) =>
              /\ status' = "INSUFFICIENT_BUDGET_FOR_GENERATION"
              /\ NoCall
              /\ UNCHANGED <<plan, draft_answer, remaining_tokens,
                             tokens_used, step_count>>
        /\ (pc = "planner" /\ remaining_tokens = 800) =>
              /\ status' = status
              /\ call_failed' \/ calls'["planner"] = calls["planner"] + 1
        /\ (pc = "generator" /\ remaining_tokens = 2500) =>
              /\ status' = status
              /\ call_failed' \/ calls'["generator"] = calls["generator"] + 1
      ]_vars

\* C6's case: the generator has degraded at 2499 in a pass whose planner, at
\* 2599, made its call.
C6_Witness ==
    /\ pc = "critic"
    /\ status = "INSUFFICIENT_BUDGET_FOR_GENERATION"
    /\ remaining_tokens = 2499
    /\ calls["planner"] = 1
    /\ calls["generator"] = 0

\* C7: when should_continue returns end the graph runs finalize_node, which
\* copies draftAnswer into finalAnswer, sets COMPLETED and ends the run,
\* changing neither remainingBudget, tokensUsed nor stepCount and making no
\* external call.
C7_EndFinalizes ==
    [][ /\ (pc = "router" /\ branch' = "end") => pc' = "finalize"
        /\ pc' = "finalize" => (pc = "router" /\ branch' = "end")
        /\ pc = "finalize" =>
              /\ final_answer' = draft_answer
              /\ draft_answer' = draft_answer
              /\ status' = "COMPLETED"
              /\ pc' = "done"
              /\ NoCall
              /\ UNCHANGED <<remaining_tokens, tokens_used, step_count>>
      ]_vars

\* C7's case: a run ended by finalize_node with the second draft.
C7_Witness ==
    /\ pc = "done"
    /\ branch = "end"
    /\ status = "COMPLETED"
    /\ final_answer = "d2"
    /\ step_count = 2

\* C8: when should_continue returns summarize the graph runs
\* summarizer_node, which sets COMPLETED_WITH_SUMMARY whenever it returns;
\* with remainingBudget < 400 it makes no external call, leaves
\* remainingBudget and tokensUsed unchanged and sets finalAnswer to the
\* draft if there is one and to the fallback message otherwise.
C8_Summarizer ==
    [][ /\ (pc = "router" /\ branch' = "summarize") => pc' = "summarizer"
        /\ pc = "summarizer" =>
              \/ pc' = "done" /\ status' = "COMPLETED_WITH_SUMMARY"
              \/ pc' = "aborted" /\ call_failed' /\ remaining_tokens >= 400
        /\ (pc = "summarizer" /\ remaining_tokens < 400) =>
              /\ NoCall
              /\ UNCHANGED <<remaining_tokens, tokens_used>>
              /\ final_answer' =
                    (IF draft_answer # "" THEN draft_answer
                     ELSE "Unable to generate an answer due to budget constraints.")
      ]_vars

\* C8's case: the summarizer has run without budget and kept the draft.
C8_Witness ==
    /\ pc = "done"
    /\ status = "COMPLETED_WITH_SUMMARY"
    /\ remaining_tokens < 400
    /\ draft_answer # ""
    /\ final_answer = draft_answer
    /\ calls["summarizer"] = 0

\* C9: for a request whose totalBudget is below 800 the planner degrades on
\* the first pass, should_continue is evaluated once and returns summarize,
\* no node makes an external call, tokensUsed stays empty, remainingBudget
\* stays totalBudget, and the run ends with the fallback message and
\* COMPLETED_WITH_SUMMARY.
C9_BelowPlannerBudget ==
    total_token_budget < 800 =>
        /\ \A n \in Nodes : calls[n] = 0
        /\ DOMAIN tokens_used = {}
        /\ remaining_tokens = total_token_budget
        /\ step_count = 0
        /\ pc # "planner" => status # "INIT"
        /\ pc = "retriever" => status = "INSUFFICIENT_BUDGET_FOR_PLANNING"
        /\ router_evals <= 1
        /\ router_evals = 1 => (branch = "summarize" /\ pc \in {"summarizer", "done"})
        /\ pc \notin {"aborted", "finalize"}
        /\ pc = "done" =>
              /\ router_evals = 1
              /\ final_answer =
                    "Unable to generate an answer due to budget constraints."
              /\ status = "COMPLETED_WITH_SUMMARY"

\* C9's case: the request with a budget of 400 has ended.
C9_Witness ==
    /\ total_token_budget = 400
    /\ pc = "done"
    /\ status = "COMPLETED_WITH_SUMMARY"

ScenarioA ==
    total_token_budget = 10000 /\ max_steps = 5 /\ ~high_seen

\* C10 as stated: with totalBudget = 10000, maxSteps = 5 and every critic
\* score below 0.85, should_continue returns loop on its first 4 evaluations
\* and summarize on its 5th, and the run ends COMPLETED_WITH_SUMMARY.
C10_FiveEvaluations ==
    ScenarioA =>
        /\ branch # "end"
        /\ (router_evals \in 1..4 /\ pc \notin {"aborted"}) =>
              (branch = "loop" /\ pc \notin {"summarizer", "done"})
        /\ pc = "done" =>
              (router_evals = 5 /\ status = "COMPLETED_WITH_SUMMARY")

\* C10 as amended: in such a run should_continue never returns end and
\* returns loop at most 4 times, so it returns summarize at its 5th
\* evaluation at the latest; it does so earlier only when remainingBudget is
\* at most 500 or a stage has set a degradation status by then; a run that
\* ends, ends COMPLETED_WITH_SUMMARY.
C10_AtMostFiveEvaluations ==
    ScenarioA =>
        /\ branch # "end"
        /\ router_evals <= 5
        /\ branch = "loop" => router_evals <= 4
        /\ (pc = "summarizer" /\ router_evals < 5) =>
              (status \in DegradedStatuses \/ remaining_tokens <= 500)
        /\ pc = "done" => status = "COMPLETED_WITH_SUMMARY"

\* C10's case: five passes, the fifth evaluation forced by the step limit.
C10_Witness ==
    /\ ScenarioA
    /\ pc = "done"
    /\ router_evals = 5
    /\ step_count = 5
    /\ remaining_tokens > 500
    /\ status = "COMPLETED_WITH_SUMMARY"

\* C11 as stated: every planner invocation, degraded or not, adds exactly 1
\* to stepCount, and no other step changes it.
C11_EveryInvocationCounts ==
    [][ /\ (pc = "planner" /\ pc' = "retriever") =>
              step_count' = step_count + 1
        /\ pc # "planner" => step_count' = step_count
      ]_vars

\* C11 as amended: stepCount increases by exactly 1 on every planner
\* invocation that takes the non-degraded path (remainingBudget >= 800) and
\* returns, is left unchanged by a degraded invocation and by every other
\* node, the router, finalize and the summarizer; so it equals the number of
\* planner calls that returned and never decreases.
C11_CountsPlannerCalls ==
    /\ [](step_count = calls["planner"])
    /\ [][ /\ (pc = "planner" /\ remaining_tokens >= 800 /\ pc' = "retriever")
                 => step_count' = step_count + 1
           /\ (pc = "planner" /\ remaining_tokens < 800)
                 => (step_count' = step_count /\ pc' = "retriever")
           /\ pc # "planner" => step_count' = step_count
           /\ step_count' >= step_count
         ]_vars

\* C11's case: the planner has degraded in a third pass, after two passes
\* that counted.
C11_Witness ==
    /\ pc = "retriever"
    /\ status = "INSUFFICIENT_BUDGET_FOR_PLANNING"
    /\ router_evals = 2
    /\ step_count = 2

\* C12: with affordable = remainingBudget - 3000, the retriever sets
\* retrievedChunks to the empty sequence without querying the index or
\* touching the ledger when affordable <= 0, and otherwise queries with
\* topK = min(10, max(1, floor(affordable / 400))), which is in [1,10] and
\* does not decrease when affordable grows.
C12_RetrieverTopK ==
    [][ pc = "retriever" =>
          LET affordable == remaining_tokens - 3000
              up(a) == IF a \div 400 < 1 THEN 1 ELSE a \div 400
              k == IF up(affordable) > 10 THEN 10 ELSE up(affordable)
          IN  /\ affordable <= 0 =>
                    /\ retrieved_chunks' = <<>>
                    /\ NoCall
                    /\ UNCHANGED <<remaining_tokens, tokens_used, top_k>>
              /\ affordable > 0 =>
                    \/ call_failed'
                    \/ /\ calls'["retriever"] = calls["retriever"] + 1
                       /\ top_k' = k
                       /\ top_k' \in 1..10
                       /\ Len(retrieved_chunks') <= top_k'
              /\ affordable > 0 =>
                    compute_top_k(affordable) <= compute_top_k(affordable + 1)
      ]_vars

\* C12's case: an affordable budget below one chunk's cost still asks for
\* one chunk.
C12_Witness ==
    /\ pc = "generator"
    /\ calls["retriever"] = 1
    /\ total_token_budget = 3000 + 100 + 399
    /\ top_k = 1
    /\ Len(retrieved_chunks) = 1

\* C13: when an external call raises inside a node, the node does not catch
\* it: the request ends at once with the generic HTTP 500, no node, router
\* evaluation, finalize or summarizer runs afterwards, the status never
\* becomes COMPLETED or COMPLETED_WITH_SUMMARY, and the response carries
\* nothing of the ledger.
C13_FailureAborts ==
    /\ [](call_failed =>
            /\ pc = "aborted"
            /\ status \notin {"COMPLETED", "COMPLETED_WITH_SUMMARY"}
            /\ response.status_code = 500
            /\ DOMAIN response = {"status_code", "detail"})
    /\ [][ /\ ~call_failed
           /\ call_failed' =>
                 UNCHANGED <<artifacts, ledger, step_count, max_steps,
                             quality_score, status, router_evals, calls>>
         ]_vars

\* C13's case: a call has failed in a second pass, with tokens already
\* charged to the ledger.
C13_Witness ==
    /\ call_failed
    /\ pc = "aborted"
    /\ router_evals = 1
    /\ total_tokens > 0

\* C14: evaluating should_continue changes nothing of the execution state:
\* remainingBudget, tokensUsed, stepCount, status, qualityScore and every
\* artifact are the same after the evaluation as before it, and no external
\* call is made; the state changes again only in the node the branch leads to.
C14_RouterReadsOnly ==
    [][ pc = "router" =>
          /\ UNCHANGED <<user_query, plan, retrieved_chunks, draft_answer,
                         final_answer, total_token_budget, remaining_tokens,
                         tokens_used, step_count, max_steps, quality_score,
                         status>>
          /\ NoCall
          /\ router_evals' = router_evals + 1
          /\ pc' \in {"finalize", "summarizer", "planner"}
      ]_vars

\* C14's case: the router has returned loop after a pass that charged the
\* ledger.
C14_Witness ==
    /\ pc = "planner"
    /\ branch = "loop"
    /\ router_evals = 1
    /\ step_count = 1
    /\ status = "INIT"
    /\ remaining_tokens < total_token_budget

\* C15 (as stated): every pass after which the router returns loop has raised
\* step_count or lowered remaining_tokens since the pass began, and no two
\* router evaluations of a run see the same (remaining_tokens, step_count)
\* pair.  Two consecutive evaluations are the case written here: the pair at
\* an evaluation differs from the pair at the evaluation before it.
C15_NoPairTwice ==
    [][ pc = "router" =>
          /\ should_continue = "loop" =>
                \/ step_count > pass_start[2]
                \/ remaining_tokens < pass_start[1]
          /\ router_evals >= 1 =>
                <<remaining_tokens, step_count>> # pass_start
      ]_vars

\* C15 (amended): a pass after which the router returns loop has raised
\* step_count by exactly one (its planner ran), and has raised step_count or
\* lowered remaining_tokens; a router evaluation sees the pair of the
\* evaluation before it only after a pass in which every stage degraded, and
\* it then returns summarize, so no two evaluations that return loop see the
\* same pair.
C15_LoopPassProgresses ==
    [][ pc = "router" =>
          /\ should_continue = "loop" =>
                /\ step_count = pass_start[2] + 1
                /\ \/ step_count > pass_start[2]
                   \/ remaining_tokens < pass_start[1]
          /\ (router_evals >= 1
              /\ <<remaining_tokens, step_count>> = pass_start) =>
                /\ should_continue = "summarize"
                /\ status = "INSUFFICIENT_BUDGET_FOR_GENERATION"
      ]_vars

\* C15's case: the router has looped twice, each time with a higher
\* step_count and a lower remaining_tokens than the pass began with.
C15_Witness ==
    /\ pc = "planner"
    /\ branch = "loop"
    /\ router_evals = 2
    /\ step_count = 2
    /\ pass_start[2] = 2
    /\ pass_start[1] < total_token_budget

\* C15: a second evaluation that saw the pair of the first one.
C15_RepeatWitness ==
    /\ pc = "summarizer"
    /\ router_evals >= 2
    /\ branch = "summarize"
    /\ calls["planner"] < router_evals
    /\ pass_start[1] = remaining_tokens
    /\ pass_start[2] = step_count

\* C16: whenever the retriever queries the index (remaining_tokens above
\* MIN_GENERATION_BUDGET at entry), remaining_tokens after it returns is still
\* at least MIN_GENERATION_BUDGET, whatever the returned chunks cost, so the
\* generator that follows does not degrade.
C16_FloorPreserved ==
    [][ (/\ pc = "retriever"
         /\ remaining_tokens > MIN_GENERATION_BUDGET
         /\ pc' = "generator") =>
            /\ remaining_tokens' >= MIN_GENERATION_BUDGET
            /\ remaining_tokens' >= GENERATOR_REQUIRED_BUDGET
      ]_vars

\* the critic has just received a completion (critic_response' holds it)
CriticGotResponse ==
    /\ pc = "critic"
    /\ calls'["critic"] = calls["critic"] + 1

\* C17: quality_score is always within [0,1] (0..100 in hundredths) and is 0
\* initially; only the critic writes it: the clamped parsed score when the
\* call returns a score, exactly 0.7 when the critic degrades or when the
\* response cannot be parsed; no other node, nor the router, changes it.
C17_QualityScore ==
    /\ quality_score = 0
    /\ [](quality_score \in 0..100)
    /\ [][ /\ quality_score' # quality_score => pc = "critic"
           /\ (pc = "critic" /\ critic_insufficient) =>
                 quality_score' = DEFAULT_SCORE
           /\ CriticGotResponse =>
                 quality_score' =
                    (IF critic_response'.kind \in {"score", "nan"}
                     THEN parse_score(critic_response')
                     ELSE DEFAULT_SCORE)
         ]_vars

\* tokens_used.get(node, 0)
UsedBy(used, node) == IF node \in DOMAIN used THEN used[node] ELSE 0

\* the completions from which critic_node cannot take a score
Malformed == {"bad_json", "bad_score", "not_object"}

\* C18: below CRITIC_REQUIRED_BUDGET the critic makes no call, sets
\* quality_score to 0.7 and leaves status, the ledger, step_count and the
\* artifacts unchanged; a malformed completion on the non-degraded path also
\* yields 0.7 without aborting the request, and the call is still charged.
C18_CriticSoftFailure ==
    [][ /\ (pc = "critic" /\ critic_insufficient) =>
              /\ NoCall
              /\ quality_score' = DEFAULT_SCORE
              /\ pc' = "router"
              /\ UNCHANGED <<artifacts, ledger, step_count, status>>
        /\ (CriticGotResponse /\ critic_response'.kind \in Malformed) =>
              /\ quality_score' = DEFAULT_SCORE
              /\ pc' = "router"
              /\ UsedBy(tokens_used', "critic") =
                    UsedBy(tokens_used, "critic") + last_cost'
              /\ last_cost' > 0
      ]_vars

\* n sequential consume_tokens(state, node, cost) on a ledger
RECURSIVE ConsumeTimes(_, _, _, _)
ConsumeTimes(used, node, cost, n) ==
    IF n = 0 THEN used
    ELSE ConsumeTimes(consume_used(used, node, cost), node, cost, n - 1)

\* C19: consume_tokens adds max(0, cost) to the stage's tokens_used entry
\* (creating it if absent), sets remaining_tokens to
\* max(0, remaining_tokens - max(0, cost)), and changes no other entry and no
\* other field; n sequential calls with the same stage and cost c raise the
\* entry by n * max(0, c), and a call with cost <= 0 leaves remaining_tokens
\* and every total unchanged.
C19_Consume ==
    /\ [][ \A node \in Nodes :
             calls'[node] = calls[node] + 1 =>
                /\ last_cost' >= 0
                /\ DOMAIN tokens_used' = DOMAIN tokens_used \cup {node}
                /\ tokens_used'[node] =
                      UsedBy(tokens_used, node) + last_cost'
                /\ \A m \in DOMAIN tokens_used \ {node} :
                      tokens_used'[m] = tokens_used[m]
                /\ remaining_tokens' = Max(0, remaining_tokens - last_cost')
                /\ UNCHANGED <<artifacts, total_token_budget, step_count,
                               max_steps, quality_score, status>>
                /\ last_cost' = 0 =>
                      /\ remaining_tokens' = remaining_tokens
                      /\ total_tokens' = total_tokens
                      /\ \A m \in DOMAIN tokens_used :
                            tokens_used'[m] = tokens_used[m]
         ]_vars
    /\ [](\A node \in LedgerStages, cost \in LedgerCosts, n \in 0..MaxConsumes :
             /\ UsedBy(ConsumeTimes(tokens_used, node, cost, n), node) =
                   UsedBy(tokens_used, node) + n * Max(0, cost)
             /\ cost <= 0 =>
                   /\ consume_remaining(remaining_tokens, cost) =
                         remaining_tokens
                   /\ \A m \in DOMAIN tokens_used :
                         consume_used(tokens_used, node, cost)[m] =
                            tokens_used[m])

\* C19's case: two calls of 100 for the same stage give 200.
C19_Witness ==
    /\ pc = "ledger"
    /\ calls["planner"] = 2
    /\ calls["generator"] = 0
    /\ tokens_used = [n \in {"planner"} |-> 200]
    /\ remaining_tokens = total_token_budget - 200
    /\ last_cost = 100

\* C20: in every step of a run each tokens_used entry is kept and never
\* lowered, remaining_tokens never rises, and total_token_budget, max_steps
\* and user_query never change after initialize_state.
C20_Monotone ==
    [][ /\ DOMAIN tokens_used \subseteq DOMAIN tokens_used'
        /\ \A n \in DOMAIN tokens_used : tokens_used'[n] >= tokens_used[n]
        /\ remaining_tokens' <= remaining_tokens
        /\ UNCHANGED <<total_token_budget, max_steps, user_query>>
      ]_vars

\* C20's case: the planner's entry has been raised in two passes and the
\* other stages have charged the ledger between them.
C20_Witness ==
    /\ pc = "retriever"
    /\ calls["planner"] = 2
    /\ UsedBy(tokens_used, "planner") = 3100
    /\ UsedBy(tokens_used, "critic") > 0
    /\ remaining_tokens = total_token_budget - total_tokens
    /\ remaining_tokens > 0

\* the summarizer has asked the external service: the call returned and was
\* counted, or it raised
SummarizerAsked ==
    \/ calls'["summarizer"] = calls["summarizer"] + 1
    \/ call_failed'

\* C21 (as stated): the summarizer calls the external service and charges
\* the ledger under "summarizer" exactly when remaining_tokens >= 400 at its
\* entry, and makes no call exactly when remaining_tokens < 400; with enough
\* budget and no draft it still calls.
C21_BudgetAloneGates ==
    [][ pc = "summarizer" =>
          /\ remaining_tokens >= SUMMARIZER_BUDGET => SummarizerAsked
          /\ remaining_tokens < SUMMARIZER_BUDGET =>
                (NoCall /\ ~call_failed')
      ]_vars

\* C21 (amended): the summarizer calls the external service exactly when a
\* draft exists and remaining_tokens >= 400 at its entry, and a call that
\* returns is charged under "summarizer" only; otherwise it makes no call and
\* leaves the ledger unchanged: with enough budget and no draft the answer is
\* the fallback message.
C21_DraftAndBudgetGate ==
    [][ pc = "summarizer" =>
          /\ (draft_answer # "" /\ remaining_tokens >= SUMMARIZER_BUDGET) =>
                /\ SummarizerAsked
                /\ ~call_failed' =>
                      /\ calls' = [calls EXCEPT !["summarizer"] = @ + 1]
                      /\ tokens_used'["summarizer"] =
                            UsedBy(tokens_used, "summarizer") + last_cost'
                      /\ \A n \in DOMAIN tokens_used \ {"summarizer"} :
                            tokens_used'[n] = tokens_used[n]
                      /\ remaining_tokens' =
                            Max(0, remaining_tokens - last_cost')
          /\ (draft_answer = "" \/ remaining_tokens < SUMMARIZER_BUDGET) =>
                /\ NoCall
                /\ ~call_failed'
                /\ UNCHANGED ledger
                /\ final_answer' =
                      (IF draft_answer # "" THEN draft_answer
                       ELSE FALLBACK_ANSWER)
      ]_vars

\* C21's case: the summarizer had a draft and the budget, called and charged.
C21_Witness ==
    /\ pc = "done"
    /\ status = "COMPLETED_WITH_SUMMARY"
    /\ calls["summarizer"] = 1
    /\ UsedBy(tokens_used, "summarizer") = last_cost
    /\ last_cost > 0
    /\ final_answer = "s"

\* C21: the summarizer had the budget and no draft, and made no call.
C21_NoDraftWitness ==
    /\ pc = "done"
    /\ draft_answer = ""
    /\ remaining_tokens >= SUMMARIZER_BUDGET
    /\ calls["summarizer"] = 0
    /\ final_answer = FALLBACK_ANSWER

\* the planner, the generator and the critic each made their external call
\* in the current pass
CalledThisPass ==
    \A n \in {"planner", "generator", "critic"} : calls[n] = pass_calls[n] + 1

\* C22: should_continue returns end only after a pass in which the planner,
\* the generator and the critic each made their external call; a run that
\* ends COMPLETED has final_answer equal to the draft of that pass, scored
\* >= 0.85 by the critic's call of that pass, with remaining_tokens > 500; the
\* default 0.7 of a degraded critic never leads to end.
C22_EndAfterFullPass ==
    /\ []((pc = "router" /\ should_continue = "end") =>
             /\ CalledThisPass
             /\ step_count = pass_start[2] + 1
             /\ critic_response.kind \in {"score", "nan"}
             /\ quality_score = parse_score(critic_response))
    /\ [](status = "COMPLETED" =>
             /\ pc = "done"
             /\ branch = "end"
             /\ CalledThisPass
             /\ final_answer = draft_answer
             /\ quality_score >= QUALITY_THRESHOLD
             /\ quality_score = parse_score(critic_response)
             /\ remaining_tokens > BUDGET_THRESHOLD)
    /\ [][ /\ pc \in {"critic", "router", "finalize"} =>
                 UNCHANGED draft_answer
           /\ (pc = "critic" /\ critic_insufficient) =>
                 (quality_score' = DEFAULT_SCORE /\ should_continue' # "end")
         ]_vars

\* C22's case: the second pass was complete and ended the run with its draft.
C22_Witness ==
    /\ status = "COMPLETED"
    /\ router_evals = 2
    /\ step_count = 2
    /\ calls["generator"] = 2
    /\ calls["critic"] = 2
    /\ final_answer = "d2"
    /\ quality_score = 85

\* the planner of the current pass has run and made no call: it degraded
PlannerDegraded ==
    /\ pc \in {"retriever", "generator", "critic", "router"}
    /\ calls["planner"] = pass_calls["planner"]

\* C23: after the planner degrades, the retriever, the generator and the
\* critic still run in order before should_continue is evaluated; none makes
\* an external call or changes the ledger (empty chunks, degraded generator,
\* 0.7 from the critic); the router sees INSUFFICIENT_BUDGET_FOR_GENERATION
\* and returns summarize, and the planner never runs again.
C23_DegradedPlannerPass ==
    /\ [](PlannerDegraded =>
             /\ remaining_tokens < PLANNER_REQUIRED_BUDGET
             /\ calls = pass_calls
             /\ remaining_tokens = pass_start[1]
             /\ step_count = pass_start[2]
             /\ pc \in {"retriever", "generator"} =>
                   status = "INSUFFICIENT_BUDGET_FOR_PLANNING"
             /\ pc \in {"generator", "critic", "router"} =>
                   retrieved_chunks = <<>>
             /\ pc \in {"critic", "router"} =>
                   status = "INSUFFICIENT_BUDGET_FOR_GENERATION"
             /\ pc = "router" =>
                   /\ quality_score = DEFAULT_SCORE
                   /\ should_continue = "summarize")
    /\ [][ /\ (pc = "planner" /\ planner_insufficient) =>
                 (pc' = "retriever" /\ PlannerDegraded')
           /\ PlannerDegraded =>
                 /\ NoCall
                 /\ ~call_failed'
                 /\ UNCHANGED ledger
                 /\ pc' = (CASE pc = "retriever" -> "generator"
                             [] pc = "generator" -> "critic"
                             [] pc = "critic"    -> "router"
                             [] pc = "router"    -> "summarizer")
         ]_vars
    /\ [](PlannerDegraded => [](pc # "planner"))

\* C23's case: the planner degraded in the third pass of a run, the pass ran
\* to the router without a call, and the router sent it to the summarizer.
C23_Witness ==
    /\ pc = "summarizer"
    /\ router_evals = 3
    /\ branch = "summarize"
    /\ calls = pass_calls
    /\ calls["planner"] = 2
    /\ status = "INSUFFICIENT_BUDGET_FOR_GENERATION"
    /\ quality_score = DEFAULT_SCORE
    /\ retrieved_chunks = <<>>

\* C24: for max_steps >= 1, step_count <= max_steps in every reachable
\* state, so the steps_executed of the /query response never exceeds
\* max_steps and the planner makes at most max_steps external calls.
C24_StepsWithinLimit ==
    max_steps >= 1 =>
        /\ step_count <= max_steps
        /\ calls["planner"] = step_count
        /\ pc = "planner" => step_count < max_steps
        /\ pc = "done" => response.steps_executed <= max_steps

\* C24's case: a run that used every step it was allowed.
C24_Witness ==
    /\ pc = "done"
    /\ max_steps = 2
    /\ step_count = max_steps
    /\ calls["planner"] = 2
    /\ response.steps_executed = 2
    /\ branch = "summarize"

=============================================================================
